---------------------------- MODULE Spec2Model ----------------------------
(***************************************************************************)
(* Model of the Smart RSU relay server (src/Prototyping/relay_server.py):  *)
(* the primary UDP listener (main), the secondary ACK listener             *)
(* (ack_listener) and the periodic TPMS broadcaster (tpms_broadcast_loop), *)
(* three threads sharing latest_data, tpms_gen.tick and dashboard_queue    *)
(* without any lock.                                                       *)
(*                                                                         *)
(* Encodings.                                                              *)
(*  - A Python value that may be None is <<>> (None) or <<v>> (Some(v)).   *)
(*  - A Python dict / JSON object is a function from its keys to values.   *)
(*  - Real numbers are fixed-point integers: angles in 1e-4 rad,           *)
(*    coordinates in whole degrees, distances in 1e-4 km inside the        *)
(*    computation, pressures and temperatures in 1e-4 units before         *)
(*    round(x, 1) and in tenths after it.  round(x, n) keeps its           *)
(*    half-to-even rule.                                                   *)
(*  - datetime.now().strftime(...) is the wall clock, read as Now.         *)
(*  - Every field of a datagram that is present holds a value of the JSON  *)
(*    type the senders put there (obu_pyqt/main.py, car2_obu/car2_obu.py). *)
(***************************************************************************)
EXTENDS Integers, Sequences, FiniteSets, TLC

\* ------------------------------------------------------------- configuration
LISTEN_PORT == 5005
CAR2_PORT == 5006
HOSPITAL_PORT == 5007
DASHBOARD_PORT == 5008
CAR1_STATUS_PORT == 5009
ACK_PORT == LISTEN_PORT + 10

\* ------------------------------------------------------------------- bounds
\* Inputs the model follows: datagrams received on the two inbound ports and
\* wake-ups of the periodic broadcaster, together.
MaxEvents == 3

\* --------------------------------------------------------------- Python None
None == <<>>
Some(v) == <<v>>
IsNone(o) == o = <<>>
Val(o) == o[1]

\* dict.get(k): the value, or None when the key is absent.
DictGet(d, k) == IF k \in DOMAIN d THEN Some(d[k]) ELSE None
\* dict.get(k, default)
DictGetOr(d, k, default) == IF k \in DOMAIN d THEN d[k] ELSE default
\* d[k] = v on a dict
DictSet(d, k, v) == [x \in DOMAIN d \cup {k} |-> IF x = k THEN v ELSE d[x]]

\* ------------------------------------------------------ fixed-point numbers
\* One unit of the fixed-point scale (1e-4).
Scale == 10 ^ 4
\* pi and pi/2 in 1e-4 rad.
Pi == 31416
HalfPi == Pi \div 2

Abs(x) == IF x < 0 THEN -x ELSE x
\* Division truncating toward zero on the magnitude (symmetric in the sign).
SDiv(a, b) == IF a >= 0 THEN a \div b ELSE -((-a) \div b)
\* Fixed-point product.
FMul(a, b) == SDiv(a * b, Scale)

\* round(x / unit) with Python's round-half-to-even.
RoundDiv(x, unit) ==
    LET a == Abs(x)
        q == a \div unit
        r == a % unit
        up == (2 * r > unit) \/ (2 * r = unit /\ q % 2 = 1)
        m == IF up THEN q + 1 ELSE q
    IN  IF x < 0 THEN -m ELSE m

\* math.radians on whole degrees, in 1e-4 rad.
Radians(deg) == SDiv(deg * Pi, 180)

\* sin on [-pi/2, pi/2] by its Taylor polynomial up to x^9.
SinCore(x) ==
    LET x2 == FMul(x, x)
        t3 == SDiv(FMul(x, x2), 6)
        t5 == SDiv(FMul(t3, x2), 20)
        t7 == SDiv(FMul(t5, x2), 42)
        t9 == SDiv(FMul(t7, x2), 72)
    IN  x - t3 + t5 - t7 + t9

\* math.sin: the argument reduced to [-pi, pi), then to [-pi/2, pi/2].
Sin(x) ==
    LET y == ((x + Pi) % (2 * Pi)) - Pi
        z == IF y > HalfPi THEN Pi - y
             ELSE IF y < -HalfPi THEN -Pi - y
             ELSE y
    IN  SinCore(z)

\* math.cos
Cos(x) == Sin(HalfPi - x)

\* math.sqrt of a fixed-point number in [0, 1]: the integer root of a * Scale.
RECURSIVE SqrtSearch(_, _, _)
SqrtSearch(n, lo, hi) ==
    IF lo >= hi THEN lo
    ELSE LET mid == (lo + hi + 1) \div 2
         IN  IF mid * mid <= n THEN SqrtSearch(n, mid, hi)
             ELSE SqrtSearch(n, lo, mid - 1)

Sqrt(a) == SqrtSearch(a * Scale, 0, Scale)

\* math.asin on [0, 1]: the largest angle in [0, pi/2] whose sine is <= y.
RECURSIVE AsinSearch(_, _, _)
AsinSearch(y, lo, hi) ==
    IF lo >= hi THEN lo
    ELSE LET mid == (lo + hi + 1) \div 2
         IN  IF SinCore(mid) <= y THEN AsinSearch(y, mid, hi)
             ELSE AsinSearch(y, lo, mid - 1)

Asin(y) == IF y >= Scale THEN HalfPi ELSE AsinSearch(y, 0, HalfPi)

\* ---------------------------------------------------------------- haversine
\* Earth radius in km.
EarthRadiusKm == 6371
\* Default speed_kmh of calculate_eta.
DefaultSpeedKmh == 40
\* The value calculate_eta returns for speed_kmh <= 0.
EtaSentinel == 999

\* Variant of haversine_distance: the cosine of the first latitude is used for
\* both points.
haversine_distance_first_latitude(lat1, lon1, lat2, lon2) ==
    LET dlat == Radians(lat2 - lat1)
        dlon == Radians(lon2 - lon1)
        sdlat == Sin(SDiv(dlat, 2))
        sdlon == Sin(SDiv(dlon, 2))
        a == FMul(sdlat, sdlat)
             + FMul(FMul(Cos(Radians(lat1)), Cos(Radians(lat1))), FMul(sdlon, sdlon))
        c == 2 * Asin(Sqrt(a))
    IN  EarthRadiusKm * c

\* haversine_distance(lat1, lon1, lat2, lon2): km, in 1e-4 km.
haversine_distance(lat1, lon1, lat2, lon2) ==
    LET dlat == Radians(lat2 - lat1)
        dlon == Radians(lon2 - lon1)
        sdlat == Sin(SDiv(dlat, 2))
        sdlon == Sin(SDiv(dlon, 2))
        a == FMul(sdlat, sdlat)
             + FMul(FMul(Cos(Radians(lat1)), Cos(Radians(lat2))), FMul(sdlon, sdlon))
        c == 2 * Asin(Sqrt(a))
    IN  EarthRadiusKm * c

\* Variant of calculate_eta: only a speed of exactly 0 gives the sentinel.
calculate_eta_zero_only(lat1, lon1, lat2, lon2, speed_kmh) ==
    LET dist == haversine_distance(lat1, lon1, lat2, lon2)
    IN  IF speed_kmh = 0 THEN EtaSentinel * 10
        ELSE LET time_hours == SDiv(dist, speed_kmh)
             IN  RoundDiv(time_hours * 60, 1000)

\* calculate_eta(lat1, lon1, lat2, lon2, speed_kmh): minutes, in tenths
\* (round(time_hours * 60, 1)); the sentinel is the plain number 999.
calculate_eta(lat1, lon1, lat2, lon2, speed_kmh) ==
    LET dist == haversine_distance(lat1, lon1, lat2, lon2)
    IN  IF speed_kmh <= 0 THEN EtaSentinel * 10
        ELSE LET time_hours == SDiv(dist, speed_kmh)
             IN  RoundDiv(time_hours * 60, 1000)

\* ------------------------------------------------------------ TPMSGenerator
Wheels == <<"FL", "FR", "RL", "RR">>
WheelSet == {Wheels[i] : i \in 1..Len(Wheels)}

\* Variant of base_pressure: the rear left wheel starts from 29.0 PSI.
base_pressure_soft_rear == [w \in WheelSet |->
    CASE w = "FL" -> 330000 [] w = "FR" -> 335000 [] w = "RL" -> 290000 [] OTHER -> 325000]

\* self.base_pressure and self.base_temp, in 1e-4 PSI and 1e-4 degrees C.
base_pressure == [w \in WheelSet |->
    CASE w = "FL" -> 330000 [] w = "FR" -> 335000 [] w = "RL" -> 320000 [] OTHER -> 325000]
base_temp == [w \in WheelSet |->
    CASE w = "FL" -> 350000 [] w = "FR" -> 360000 [] w = "RL" -> 340000 [] OTHER -> 355000]

\* max(lo, min(hi, v))
Clamp(lo, hi, v) == IF v > hi THEN hi ELSE IF v < lo THEN lo ELSE v

\* Variant of WheelStatus: the two thresholds belong to LOW and HIGH.
WheelStatusInclusive(pressure) ==
    IF pressure <= 280 THEN "LOW" ELSE IF pressure >= 380 THEN "HIGH" ELSE "OK"

\* The status derived from the clamped pressure (tenths of PSI).
WheelStatus(pressure) ==
    IF pressure < 280 THEN "LOW" ELSE IF pressure > 380 THEN "HIGH" ELSE "OK"

\* Variant of WheelReading: the drift grows with the tick instead of following
\* its sine, and the readings are not clamped.
WheelReadingLinearDrift(w, tk, h, pj, tj) ==
    LET drift == tk * 15000
        pressure == RoundDiv(base_pressure[w] + drift + pj, 1000)
        temp_drift == tk * 50000
        temp == RoundDiv(base_temp[w] + temp_drift + tj, 1000)
    IN  [pressure_psi |-> pressure, temperature_c |-> temp,
         status |-> WheelStatus(pressure)]

\* One pass of the loop body of generate() for one wheel: tk is self.tick as the
\* loop reads it, h is hash(wheel), pj and tj are the two random.uniform draws
\* (1e-4 units).  pressure_psi and temperature_c are in tenths.
WheelReading(w, tk, h, pj, tj) ==
    LET drift == SDiv(Sin(tk * 500 + (h % 10) * Scale) * 15, 10)
        pressure == RoundDiv(base_pressure[w] + drift + pj, 1000)
        temp_drift == Sin(tk * 300 + (h % 7) * Scale) * 5
        temp == RoundDiv(base_temp[w] + temp_drift + tj, 1000)
        cp == Clamp(250, 420, pressure)
        ct == Clamp(200, 900, temp)
    IN  [pressure_psi |-> cp, temperature_c |-> ct, status |-> WheelStatus(cp)]

\* The dict generate() returns; jit[w] = <<pressure jitter, temperature jitter>>.
GenerateTpms(tk, hashes, jit) ==
    [w \in WheelSet |-> WheelReading(w, tk, hashes[w], jit[w][1], jit[w][2])]

\* random.uniform(-0.3, 0.3) and random.uniform(-1.0, 1.0): the end points and 0.
PressureJitter == {-3000, 0, 3000}
TempJitter == {-10000, 0, 10000}
\* The draws of one generate() call that the interleaved model explores.
JitterSamples ==
    { [w \in WheelSet |-> IF w \in {"FL", "RR"} THEN <<3000, -10000>> ELSE <<-3000, 10000>>] }
\* hash(wheel) is fixed per process (string hashing is salted per process).
HashSamples ==
    { [w \in WheelSet |-> CASE w = "FL" -> 0 [] w = "FR" -> 11 [] w = "RL" -> 25 [] OTHER -> 69] }

\* ---------------------------------------------------------------- datagrams
\* The wall clock as strftime("%H:%M:%S") renders it.
Now == "HH:MM:SS"

EnvReading ==
    "temperature" :> 31 @@ "humidity" :> 40 @@ "air_quality" :> 120 @@ "light_level" :> 300

\* A report as the RSU forwards it: every field of the inbound shape present.
ReportFull ==
    "vehicle_id" :> "CAR_01" @@ "issue" :> "Accident" @@ "raw_description" :> "crash"
    @@ "latitude" :> 28 @@ "longitude" :> 77 @@ "timestamp" :> "10:00:00"
    @@ "hop_trace" :> <<"CAR_01", "ESP32_RSU">>
    @@ "rsu_environment" :> EnvReading @@ "environment_status" :> "Normal"
\* A report that already went through the relay, with a type other than "ACK".
ReportRelayed ==
    "type" :> "EMERGENCY" @@ "vehicle_id" :> "CAR_03" @@ "issue" :> "Flat Tire"
    @@ "raw_description" :> "flat" @@ "latitude" :> 10 @@ "longitude" :> 20
    @@ "timestamp" :> "10:05:00" @@ "hop_trace" :> <<"CAR_03", "ESP32_RSU", "RELAY">>
\* A report with nothing but the vehicle: no coordinates, no hop_trace.
ReportBare == "vehicle_id" :> "CAR_04" @@ "issue" :> "Engine Problem"

\* The acknowledgment car2_obu sends, and one with only the discriminator.
AckFull ==
    "type" :> "ACK" @@ "car2_id" :> "CAR_02" @@ "car2_latitude" :> 20
    @@ "car2_longitude" :> 70 @@ "accident_vehicle" :> "CAR_01"
    @@ "ack_timestamp" :> "10:01:00"
AckBare == "type" :> "ACK"

\* What recvfrom can return: bytes that are not UTF-8, text that is not JSON,
\* JSON that is not an object, and JSON objects.
InvalidUtf8 == [enc |-> "invalid"]
NotJson == [enc |-> "utf8", json |-> "invalid"]
JsonArray == [enc |-> "utf8", json |-> "array"]
JsonObject(o) == [enc |-> "utf8", json |-> "object", obj |-> o]
Objects == {ReportFull, ReportRelayed, ReportBare, AckFull, AckBare}
Datagrams == {InvalidUtf8, NotJson, JsonArray} \cup {JsonObject(o) : o \in Objects}

\* data.decode() then json.loads(): "UnicodeDecodeError", "JSONDecodeError" or "ok".
Parse(d) ==
    IF d.enc = "invalid" THEN "UnicodeDecodeError"
    ELSE IF d.json = "invalid" THEN "JSONDecodeError"
    ELSE "ok"
\* Whether the parsed value has a .get method (is a dict).
IsDict(d) == Parse(d) = "ok" /\ d.json = "object"

\* ------------------------------------------------------------------- state
Threads == {"main", "ack_listener", "tpms_broadcast_loop"}
Listeners == {"main", "ack_listener"}
\* The port each listener's socket is bound to.
BoundPort == [t \in Listeners |-> IF t = "main" THEN LISTEN_PORT ELSE ACK_PORT]

VARIABLES
    latest_data,      \* the module-level dict
    tick,             \* tpms_gen.tick
    wheel_hash,       \* hash(wheel) of this process
    dashboard_qsize,  \* dashboard_queue.qsize(): nothing ever gets from the queue
    running,          \* the process has not exited
    pc,               \* each thread's position
    cur,              \* the datagram each listener received last (None before)
    handler,          \* the handler each listener called for cur
    ret,              \* how that call ended
    loc,              \* the locals of each thread's current call
    out,              \* the udp_send calls made for cur, or in this broadcast pass
    nrecv,            \* datagrams received so far
    nbcast,           \* broadcaster passes started so far
    prev_emergency    \* history: what the last store into latest_data["emergency"] replaced

vars == <<latest_data, tick, wheel_hash, dashboard_qsize, running, pc, cur, handler,
          ret, loc, out, nrecv, nbcast, prev_emergency>>

NoLocals == <<>>

Init ==
    /\ latest_data = [sensor_data |-> None, tpms_data |-> None, emergency |-> None,
                      car2_ack |-> None, car2_eta |-> None]
    /\ tick = 0
    /\ wheel_hash \in HashSamples
    /\ dashboard_qsize = 0
    /\ running = TRUE
    /\ pc = [t \in Threads |-> IF t \in Listeners THEN "recv" ELSE "bc_sleep"]
    /\ cur = [t \in Listeners |-> None]
    /\ handler = [t \in Listeners |-> "none"]
    /\ ret = [t \in Listeners |-> "none"]
    /\ loc = [t \in Threads |-> NoLocals]
    /\ out = [t \in Threads |-> <<>>]
    /\ nrecv = 0
    /\ nbcast = 0
    /\ prev_emergency = None

\* ------------------------------------------------------------ control flow
\* An exception no handler catches ends the thread.  In the main thread it
\* ends the process: the other two threads are daemon threads and die with it,
\* and nothing runs any more.
Raise(t) ==
    /\ running' = (t # "main")
    /\ pc' = [u \in Threads |-> IF u = t THEN "crashed"
                                ELSE IF t = "main" THEN "killed" ELSE pc[u]]
    /\ ret' = [u \in Listeners |-> IF u = t THEN "raised"
                                   ELSE IF t = "main" THEN "none" ELSE ret[u]]
    /\ cur' = [u \in Listeners |-> IF u # t /\ t = "main" THEN None ELSE cur[u]]
    /\ handler' = [u \in Listeners |-> IF u # t /\ t = "main" THEN "none" ELSE handler[u]]
    /\ loc' = [u \in Threads |-> IF u = t \/ t = "main" THEN NoLocals ELSE loc[u]]
    /\ out' = [u \in Threads |-> IF u # t /\ t = "main" THEN <<>> ELSE out[u]]

\* Variant of MainRoute: every datagram that carries a type field goes to
\* handle_car2_ack.
MainRouteAnyTypeIsAck(d) ==
    IF Parse(d) = "JSONDecodeError" THEN "except"
    ELSE IF Parse(d) = "UnicodeDecodeError" \/ ~IsDict(d) THEN "raise"
    ELSE IF "type" \in DOMAIN d.obj THEN "handle_car2_ack"
    ELSE "handle_esp32_packet"

\* The loop body of main: which call the datagram leads to, "except" for the
\* except clause, "raise" for an exception the clause does not catch.
MainRoute(d) ==
    IF Parse(d) = "JSONDecodeError" THEN "except"
    ELSE IF Parse(d) = "UnicodeDecodeError" \/ ~IsDict(d) THEN "raise"
    ELSE IF DictGet(d.obj, "type") = Some("ACK") THEN "handle_car2_ack"
    ELSE "handle_esp32_packet"

\* ack_listener calls handle_car2_ack on everything it receives.
Called(t, d) == IF t = "main" THEN MainRoute(d) ELSE "handle_car2_ack"

\* The head of handle_esp32_packet, up to the call of generate().
Esp32Begin(d) ==
    IF Parse(d) = "JSONDecodeError" THEN "return"
    ELSE IF Parse(d) = "UnicodeDecodeError" \/ ~IsDict(d) THEN "raise"
    ELSE "run"

\* Variant of Car2AckBegin: without the test of the type field.
Car2AckBeginAnyType(d) ==
    IF Parse(d) = "JSONDecodeError" THEN "return"
    ELSE IF Parse(d) = "UnicodeDecodeError" \/ ~IsDict(d) THEN "raise"
    ELSE "run"

\* The head of handle_car2_ack, up to the read of latest_data.
Car2AckBegin(d) ==
    IF Parse(d) = "JSONDecodeError" THEN "return"
    ELSE IF Parse(d) = "UnicodeDecodeError" \/ ~IsDict(d) THEN "raise"
    ELSE IF DictGet(d.obj, "type") # Some("ACK") THEN "return"
    ELSE "run"

\* How the handling of d by listener t starts: "discard", "raise", "report", "ack".
Outcome(t, d) ==
    LET h == Called(t, d)
        b == IF h = "handle_esp32_packet" THEN Esp32Begin(d)
             ELSE IF h = "handle_car2_ack" THEN Car2AckBegin(d)
             ELSE h
    IN  IF b \in {"except", "return"} THEN "discard"
        ELSE IF b = "raise" THEN "raise"
        ELSE IF h = "handle_esp32_packet" THEN "report"
        ELSE "ack"

\* The handler whose frame is entered for d, "none" when main got to neither.
Entered(t, d) == IF Called(t, d) \in {"except", "raise"} THEN "none" ELSE Called(t, d)

\* sock.recvfrom(4096) returns d to listener t.
Listening(t) == running /\ pc[t] = "recv" /\ nrecv + nbcast < MaxEvents

Receive(t, d) ==
    /\ nrecv' = nrecv + 1
    /\ cur' = [cur EXCEPT ![t] = Some(d)]
    /\ handler' = [handler EXCEPT ![t] = Entered(t, d)]

\* The same, when handling d raises at once: the datagram and the handler called
\* stay on record for the thread that died.
ReceiveAndRaise(t, d) ==
    /\ nrecv' = nrecv + 1
    /\ running' = (t # "main")
    /\ pc' = [u \in Threads |-> IF u = t THEN "crashed"
                                ELSE IF t = "main" THEN "killed" ELSE pc[u]]
    /\ ret' = [u \in Listeners |-> IF u = t THEN "raised"
                                   ELSE IF t = "main" THEN "none" ELSE ret[u]]
    /\ cur' = [u \in Listeners |-> IF u = t THEN Some(d)
                                   ELSE IF t = "main" THEN None ELSE cur[u]]
    /\ handler' = [u \in Listeners |-> IF u = t THEN Entered(t, d)
                                       ELSE IF t = "main" THEN "none" ELSE handler[u]]
    /\ loc' = [u \in Threads |-> IF u = t \/ t = "main" THEN NoLocals ELSE loc[u]]
    /\ out' = [u \in Threads |-> IF u # t /\ t = "main" THEN <<>> ELSE out[u]]

\* Variant of RecvDiscard: the generator is advanced before the datagram is
\* looked at.
RecvDiscardAfterGenerate(t) ==
    /\ Listening(t)
    /\ \E d \in Datagrams :
           /\ Outcome(t, d) = "discard"
           /\ Receive(t, d)
           /\ ret' = [ret EXCEPT ![t] = "discarded"]
           /\ pc' = [pc EXCEPT ![t] = "loop"]
           /\ tick' = tick + 1
           /\ UNCHANGED <<latest_data, wheel_hash, dashboard_qsize, running, loc, out,
                          nbcast, prev_emergency>>

\* A datagram that is dropped: main's except clause, the handler's own except
\* clause, or handle_car2_ack's return on a type other than "ACK".
RecvDiscard(t) ==
    /\ Listening(t)
    /\ \E d \in Datagrams :
           /\ Outcome(t, d) = "discard"
           /\ Receive(t, d)
           /\ ret' = [ret EXCEPT ![t] = "discarded"]
           /\ pc' = [pc EXCEPT ![t] = "loop"]
           /\ UNCHANGED <<latest_data, tick, wheel_hash, dashboard_qsize, running, loc, out,
                          nbcast, prev_emergency>>

\* A datagram whose decoding or field access raises what no clause catches.
RecvRaise(t) ==
    /\ Listening(t)
    /\ \E d \in Datagrams :
           /\ Outcome(t, d) = "raise"
           /\ ReceiveAndRaise(t, d)
           /\ UNCHANGED <<latest_data, tick, wheel_hash, dashboard_qsize, nbcast, prev_emergency>>

\* handle_esp32_packet starts: the packet, its rsu_environment and status.
RecvReport(t) ==
    /\ Listening(t)
    /\ \E d \in Datagrams :
           /\ Outcome(t, d) = "report"
           /\ Receive(t, d)
           /\ loc' = [loc EXCEPT ![t] =
                        [packet |-> d.obj,
                         sensor_data |-> DictGetOr(d.obj, "rsu_environment", <<>>),
                         env_status |-> DictGetOr(d.obj, "environment_status", "Unknown")]]
           /\ pc' = [pc EXCEPT ![t] = "gen_load"]
           /\ ret' = [ret EXCEPT ![t] = "running"]
           /\ UNCHANGED <<latest_data, tick, wheel_hash, dashboard_qsize, running, out,
                          nbcast, prev_emergency>>

\* handle_car2_ack starts: the ack and the responder's coordinates.
RecvAck(t) ==
    /\ Listening(t)
    /\ \E d \in Datagrams :
           /\ Outcome(t, d) = "ack"
           /\ Receive(t, d)
           /\ loc' = [loc EXCEPT ![t] =
                        [ack |-> d.obj,
                         car2_lat |-> DictGetOr(d.obj, "car2_latitude", 0),
                         car2_lon |-> DictGetOr(d.obj, "car2_longitude", 0)]]
           /\ pc' = [pc EXCEPT ![t] = "ack_read"]
           /\ ret' = [ret EXCEPT ![t] = "running"]
           /\ UNCHANGED <<latest_data, tick, wheel_hash, dashboard_qsize, running, out,
                          nbcast, prev_emergency>>

\* The handler returns and the listener's while True goes back to recvfrom: the
\* handler's locals, the datagram and what was recorded about its handling are
\* gone.
ListenerLoop(t) ==
    /\ running
    /\ pc[t] = "loop"
    /\ pc' = [pc EXCEPT ![t] = "recv"]
    /\ cur' = [cur EXCEPT ![t] = None]
    /\ handler' = [handler EXCEPT ![t] = "none"]
    /\ ret' = [ret EXCEPT ![t] = "none"]
    /\ out' = [out EXCEPT ![t] = <<>>]
    /\ loc' = [loc EXCEPT ![t] = NoLocals]
    /\ UNCHANGED <<latest_data, tick, wheel_hash, dashboard_qsize, running, nrecv, nbcast, prev_emergency>>

\* ------------------------------------------------------- TPMSGenerator.generate
\* self.tick += 1 is a read of the attribute and, later, a write of it.
GenLoad(t) ==
    /\ running
    /\ pc[t] = "gen_load"
    /\ loc' = [loc EXCEPT ![t] = [f \in DOMAIN @ \cup {"tick_read"} |->
                                    IF f = "tick_read" THEN tick ELSE @[f]]]
    /\ pc' = [pc EXCEPT ![t] = "gen_store"]
    /\ UNCHANGED <<latest_data, tick, wheel_hash, dashboard_qsize, running, cur, handler,
                   ret, out, nrecv, nbcast, prev_emergency>>

GenStore(t) ==
    /\ running
    /\ pc[t] = "gen_store"
    /\ tick' = loc[t]["tick_read"] + 1
    /\ pc' = [pc EXCEPT ![t] = "gen_loop"]
    /\ UNCHANGED <<latest_data, wheel_hash, dashboard_qsize, running, cur, handler, ret,
                   loc, out, nrecv, nbcast, prev_emergency>>

\* The loop over the wheels reads self.tick as it stands now and returns the dict.
GenLoop(t) ==
    /\ running
    /\ pc[t] = "gen_loop"
    /\ \E jit \in JitterSamples :
         loc' = [loc EXCEPT ![t] =
                   [f \in (DOMAIN @ \ {"tick_read"}) \cup {"tpms"} |->
                      IF f = "tpms" THEN GenerateTpms(tick, wheel_hash, jit) ELSE @[f]]]
    /\ pc' = [pc EXCEPT ![t] = IF t = "tpms_broadcast_loop" THEN "bc_store"
                               ELSE "esp_sensor"]
    /\ UNCHANGED <<latest_data, tick, wheel_hash, dashboard_qsize, running, cur, handler,
                   ret, out, nrecv, nbcast, prev_emergency>>

\* ---------------------------------------------------------------- udp_send
\* The udp_send calls a handler makes in a row are one step: they touch nothing
\* the other threads read.  sends[i] = [port, data, put] (put: the message is
\* put on dashboard_queue before it is sent), oks[i]: sendto succeeded.
\* Variant of Attempted: the first failed call ends the row of calls.
AttemptedUntilFailure(sends, oks) ==
    LET bad == {i \in 1..Len(sends) : ~oks[i]}
    IN  IF bad = {} THEN Len(sends) ELSE CHOOSE i \in bad : \A j \in bad : i <= j

\* How many of the calls are made: udp_send catches every Exception of its
\* body, so a failed call returns like any other and the next one follows.
Attempted(sends, oks) == Len(sends)

SendAllThen(t, sends, oks, next) ==
    LET n == Attempted(sends, oks)
    IN  /\ out' = [out EXCEPT ![t] =
                     @ \o [i \in 1..n |-> [port |-> sends[i].port, ok |-> oks[i],
                                           data |-> sends[i].data]]]
        /\ dashboard_qsize' = dashboard_qsize + Cardinality({i \in 1..n : sends[i].put})
        /\ pc' = [pc EXCEPT ![t] = next]
        /\ ret' = IF next = "loop" THEN [ret EXCEPT ![t] = "returned"] ELSE ret

\* ------------------------------------------------------- handle_esp32_packet
\* Variant of AddRelay: the relay is appended without the membership test.
AddRelayAlways(packet) ==
    IF "hop_trace" \in DOMAIN packet
    THEN DictSet(packet, "hop_trace", Append(packet["hop_trace"], "RELAY"))
    ELSE packet

\* The hop trace after the relay adds itself.
AddRelay(packet) ==
    IF "hop_trace" \in DOMAIN packet
    THEN IF \E i \in 1..Len(packet["hop_trace"]) : packet["hop_trace"][i] = "RELAY"
         THEN packet
         ELSE DictSet(packet, "hop_trace", Append(packet["hop_trace"], "RELAY"))
    ELSE packet

\* Variant of Enrich: tpms_data is not attached to the packet.
EnrichWithoutTpms(packet, tpms) == AddRelay(DictSet(packet, "relay_timestamp", Now))

\* The packet with tpms_data, relay_timestamp and the hop trace entry.
Enrich(packet, tpms) ==
    AddRelay(DictSet(DictSet(packet, "tpms_data", tpms), "relay_timestamp", Now))

\* Variant of EmergencyOf: a field the packet lacks keeps the value of the
\* emergency stored before.
EmergencyMerged(packet, env_status) ==
    LET old == latest_data.emergency
        field(k, was) == IF IsNone(DictGet(packet, k)) /\ ~IsNone(old) THEN was
                         ELSE DictGet(packet, k)
    IN  [vehicle_id |-> field("vehicle_id", Val(old).vehicle_id),
         issue |-> field("issue", Val(old).issue),
         raw_description |-> field("raw_description", Val(old).raw_description),
         latitude |-> field("latitude", Val(old).latitude),
         longitude |-> field("longitude", Val(old).longitude),
         timestamp |-> field("timestamp", Val(old).timestamp),
         hop_trace |-> field("hop_trace", Val(old).hop_trace),
         environment_status |-> env_status]

\* The dict stored as latest_data["emergency"].
EmergencyOf(packet, env_status) ==
    [vehicle_id |-> DictGet(packet, "vehicle_id"),
     issue |-> DictGet(packet, "issue"),
     raw_description |-> DictGet(packet, "raw_description"),
     latitude |-> DictGet(packet, "latitude"),
     longitude |-> DictGet(packet, "longitude"),
     timestamp |-> DictGet(packet, "timestamp"),
     hop_trace |-> DictGet(packet, "hop_trace"),
     environment_status |-> env_status]

hospital_msg(packet, env_status) ==
    [type |-> "EMERGENCY_ALERT",
     vehicle_id |-> DictGet(packet, "vehicle_id"),
     issue |-> DictGet(packet, "issue"),
     raw_description |-> DictGet(packet, "raw_description"),
     latitude |-> DictGet(packet, "latitude"),
     longitude |-> DictGet(packet, "longitude"),
     timestamp |-> DictGet(packet, "timestamp"),
     environment_status |-> env_status,
     maps_link |-> <<DictGet(packet, "latitude"), DictGet(packet, "longitude")>>,
     relay_timestamp |-> packet["relay_timestamp"]]

dashboard_msg(packet, sensor_data, tpms, env_status) ==
    [type |-> "EMERGENCY", data |-> packet, sensor_data |-> sensor_data,
     tpms_data |-> tpms, environment_status |-> env_status, timestamp |-> Now]

\* Variant of EspStoreSensor: the three fields of latest_data are stored at once.
EspStoreAllAtOnce(t) ==
    /\ running
    /\ pc[t] = "esp_sensor"
    /\ loc' = [loc EXCEPT ![t]["packet"] = Enrich(@, loc[t]["tpms"])]
    /\ latest_data' =
         [latest_data EXCEPT
            !.sensor_data = Some(loc[t]["sensor_data"]),
            !.tpms_data = Some(loc[t]["tpms"]),
            !.emergency = Some(EmergencyOf(Enrich(loc[t]["packet"], loc[t]["tpms"]),
                                           loc[t]["env_status"]))]
    /\ pc' = [pc EXCEPT ![t] = "esp_tpms"]
    /\ UNCHANGED <<tick, wheel_hash, dashboard_qsize, running, cur, handler, ret, out,
                   nrecv, nbcast, prev_emergency>>

\* packet gets its three additions, then latest_data["sensor_data"] is stored.
EspStoreSensor(t) ==
    /\ running
    /\ pc[t] = "esp_sensor"
    /\ loc' = [loc EXCEPT ![t]["packet"] = Enrich(@, loc[t]["tpms"])]
    /\ latest_data' = [latest_data EXCEPT !.sensor_data = Some(loc[t]["sensor_data"])]
    /\ pc' = [pc EXCEPT ![t] = "esp_tpms"]
    /\ UNCHANGED <<tick, wheel_hash, dashboard_qsize, running, cur, handler, ret, out,
                   nrecv, nbcast, prev_emergency>>

EspStoreTpms(t) ==
    /\ running
    /\ pc[t] = "esp_tpms"
    /\ latest_data' = [latest_data EXCEPT !.tpms_data = Some(loc[t]["tpms"])]
    /\ pc' = [pc EXCEPT ![t] = "esp_emergency"]
    /\ UNCHANGED <<tick, wheel_hash, dashboard_qsize, running, cur, handler, ret, loc,
                   out, nrecv, nbcast, prev_emergency>>

EspStoreEmergency(t) ==
    /\ running
    /\ pc[t] = "esp_emergency"
    /\ latest_data' = [latest_data EXCEPT !.emergency =
                         Some(EmergencyOf(loc[t]["packet"], loc[t]["env_status"]))]
    /\ prev_emergency' = latest_data.emergency
    /\ pc' = [pc EXCEPT ![t] = "esp_send"]
    /\ UNCHANGED <<tick, wheel_hash, dashboard_qsize, running, cur, handler, ret, loc,
                   out, nrecv, nbcast>>

\* Variant of Esp32Sends: the dashboard is served before the hospital.
Esp32SendsDashboardFirst(l) ==
    << [port |-> CAR2_PORT, data |-> l["packet"], put |-> FALSE],
       [port |-> DASHBOARD_PORT,
        data |-> dashboard_msg(l["packet"], l["sensor_data"], l["tpms"], l["env_status"]),
        put |-> TRUE],
       [port |-> HOSPITAL_PORT, data |-> hospital_msg(l["packet"], l["env_status"]),
        put |-> FALSE] >>

\* The three sends of handle_esp32_packet, in the order of the code: the packet
\* to Car2, hospital_msg to the hospital, dashboard_msg (put on the queue first)
\* to the dashboard.
Esp32Sends(l) ==
    << [port |-> CAR2_PORT, data |-> l["packet"], put |-> FALSE],
       [port |-> HOSPITAL_PORT, data |-> hospital_msg(l["packet"], l["env_status"]),
        put |-> FALSE],
       [port |-> DASHBOARD_PORT,
        data |-> dashboard_msg(l["packet"], l["sensor_data"], l["tpms"], l["env_status"]),
        put |-> TRUE] >>

EspFanOut(t) ==
    /\ running
    /\ pc[t] = "esp_send"
    /\ \E oks \in [1..3 -> BOOLEAN] : SendAllThen(t, Esp32Sends(loc[t]), oks, "loop")
    /\ UNCHANGED <<latest_data, tick, wheel_hash, running, cur, handler, loc, nrecv,
                   nbcast, prev_emergency>>

\* ----------------------------------------------------------- handle_car2_ack
\* The branch taken on latest_data.get("emergency"): a dict that is not empty
\* is true.  acc_lat and acc_lon are emergency.get(key, 0): the stored value,
\* None included, since the emergency dict always has both keys.
\* Arithmetic on None raises TypeError.
AckComputable(emergency) ==
    IF IsNone(emergency) THEN TRUE
    ELSE ~IsNone(Val(emergency).latitude) /\ ~IsNone(Val(emergency).longitude)

\* Variant of AckEta: with no emergency stored the ETA is computed against (0, 0).
AckEtaAgainstOrigin(car2_lat, car2_lon, emergency) ==
    IF ~IsNone(emergency)
    THEN calculate_eta(car2_lat, car2_lon, Val(Val(emergency).latitude),
                       Val(Val(emergency).longitude), DefaultSpeedKmh)
    ELSE calculate_eta(car2_lat, car2_lon, 0, 0, DefaultSpeedKmh)

\* eta_min (tenths of a minute) and distance (1e-4 km) of handle_car2_ack.
AckEta(car2_lat, car2_lon, emergency) ==
    IF ~IsNone(emergency)
    THEN calculate_eta(car2_lat, car2_lon, Val(Val(emergency).latitude),
                       Val(Val(emergency).longitude), DefaultSpeedKmh)
    ELSE 0

\* Variant of AckDistance: the longitude is that of the emergency the stored one
\* replaced, when there was one.
AckDistanceMixed(car2_lat, car2_lon, emergency) ==
    IF ~IsNone(emergency)
    THEN haversine_distance(car2_lat, car2_lon, Val(Val(emergency).latitude),
                            IF IsNone(prev_emergency)
                            THEN Val(Val(emergency).longitude)
                            ELSE IF IsNone(Val(prev_emergency).longitude)
                                 THEN Val(Val(emergency).longitude)
                                 ELSE Val(Val(prev_emergency).longitude))
    ELSE 0

AckDistance(car2_lat, car2_lon, emergency) ==
    IF ~IsNone(emergency)
    THEN haversine_distance(car2_lat, car2_lon, Val(Val(emergency).latitude),
                            Val(Val(emergency).longitude))
    ELSE 0

\* round(distance, 2): hundredths of a km.
Round2(distance) == RoundDiv(distance, 100)

\* Variant of AckCompute: the stored emergency is used only when it is the one
\* the acknowledgment names in accident_vehicle.
AckComputeNamedVehicle(t) ==
    /\ running
    /\ pc[t] = "ack_read"
    /\ AckComputable(latest_data.emergency)
    /\ LET named == IF IsNone(latest_data.emergency) THEN None
                    ELSE IF Val(latest_data.emergency).vehicle_id
                            = DictGet(loc[t]["ack"], "accident_vehicle")
                         THEN latest_data.emergency
                         ELSE None
       IN  loc' = [loc EXCEPT ![t] =
                     [ack |-> @["ack"], car2_lat |-> @["car2_lat"],
                      car2_lon |-> @["car2_lon"],
                      emergency |-> latest_data.emergency,
                      eta_min |-> AckEta(@["car2_lat"], @["car2_lon"], named),
                      distance |-> AckDistance(@["car2_lat"], @["car2_lon"], named)]]
    /\ pc' = [pc EXCEPT ![t] = "ack_store_ack"]
    /\ UNCHANGED <<latest_data, tick, wheel_hash, dashboard_qsize, running, cur, handler,
                   ret, out, nrecv, nbcast, prev_emergency>>

\* emergency = latest_data.get("emergency"), then eta_min and distance.
AckCompute(t) ==
    /\ running
    /\ pc[t] = "ack_read"
    /\ AckComputable(latest_data.emergency)
    /\ loc' = [loc EXCEPT ![t] =
                 [ack |-> @["ack"], car2_lat |-> @["car2_lat"], car2_lon |-> @["car2_lon"],
                  emergency |-> latest_data.emergency,
                  eta_min |-> AckEta(@["car2_lat"], @["car2_lon"], latest_data.emergency),
                  distance |-> AckDistance(@["car2_lat"], @["car2_lon"],
                                           latest_data.emergency)]]
    /\ pc' = [pc EXCEPT ![t] = "ack_store_ack"]
    /\ UNCHANGED <<latest_data, tick, wheel_hash, dashboard_qsize, running, cur, handler,
                   ret, out, nrecv, nbcast, prev_emergency>>

\* The same read when the stored emergency has no latitude or no longitude:
\* haversine_distance subtracts from None and the TypeError is not caught.
AckRaise(t) ==
    /\ running
    /\ pc[t] = "ack_read"
    /\ ~AckComputable(latest_data.emergency)
    /\ Raise(t)
    /\ UNCHANGED <<latest_data, tick, wheel_hash, dashboard_qsize, nrecv, nbcast, prev_emergency>>

\* Variant of AckStoreAck: the acknowledgment is stored only when an emergency
\* was read.
AckStoreAckIfEmergency(t) ==
    /\ running
    /\ pc[t] = "ack_store_ack"
    /\ latest_data' = IF IsNone(loc[t]["emergency"]) THEN latest_data
                      ELSE [latest_data EXCEPT !.car2_ack = Some(loc[t]["ack"])]
    /\ pc' = [pc EXCEPT ![t] = "ack_store_eta"]
    /\ UNCHANGED <<tick, wheel_hash, dashboard_qsize, running, cur, handler, ret, loc,
                   out, nrecv, nbcast, prev_emergency>>

AckStoreAck(t) ==
    /\ running
    /\ pc[t] = "ack_store_ack"
    /\ latest_data' = [latest_data EXCEPT !.car2_ack = Some(loc[t]["ack"])]
    /\ pc' = [pc EXCEPT ![t] = "ack_store_eta"]
    /\ UNCHANGED <<tick, wheel_hash, dashboard_qsize, running, cur, handler, ret, loc,
                   out, nrecv, nbcast, prev_emergency>>

\* Variant of AckStoreEta: the distance is stored where the ETA belongs.
AckStoreDistance(t) ==
    /\ running
    /\ pc[t] = "ack_store_eta"
    /\ latest_data' = [latest_data EXCEPT !.car2_eta = Some(Round2(loc[t]["distance"]))]
    /\ pc' = [pc EXCEPT ![t] = "ack_send"]
    /\ UNCHANGED <<tick, wheel_hash, dashboard_qsize, running, cur, handler, ret, loc,
                   out, nrecv, nbcast, prev_emergency>>

AckStoreEta(t) ==
    /\ running
    /\ pc[t] = "ack_store_eta"
    /\ latest_data' = [latest_data EXCEPT !.car2_eta = Some(loc[t]["eta_min"])]
    /\ pc' = [pc EXCEPT ![t] = "ack_send"]
    /\ UNCHANGED <<tick, wheel_hash, dashboard_qsize, running, cur, handler, ret, loc,
                   out, nrecv, nbcast, prev_emergency>>

dashboard_ack(l) ==
    [type |-> "CAR2_ACK",
     car2_id |-> DictGetOr(l["ack"], "car2_id", "CAR_02"),
     car2_latitude |-> l["car2_lat"],
     car2_longitude |-> l["car2_lon"],
     eta_minutes |-> l["eta_min"],
     distance_km |-> Round2(l["distance"]),
     ack_timestamp |-> Now]

\* Variant of car1_status: the distance is sent as computed, not rounded.
car1_status_unrounded(l) ==
    [type |-> "HELP_COMING",
     helper_id |-> DictGetOr(l["ack"], "car2_id", "CAR_02"),
     eta_minutes |-> l["eta_min"],
     distance_km |-> l["distance"],
     timestamp |-> Now]

car1_status(l) ==
    [type |-> "HELP_COMING",
     helper_id |-> DictGetOr(l["ack"], "car2_id", "CAR_02"),
     eta_minutes |-> l["eta_min"],
     distance_km |-> Round2(l["distance"]),
     timestamp |-> Now]

\* The two sends of handle_car2_ack: dashboard_ack (put on the queue first) to
\* the dashboard, then car1_status to Car1.
Car2AckSends(l) ==
    << [port |-> DASHBOARD_PORT, data |-> dashboard_ack(l), put |-> TRUE],
       [port |-> CAR1_STATUS_PORT, data |-> car1_status(l), put |-> FALSE] >>

AckFanOut(t) ==
    /\ running
    /\ pc[t] = "ack_send"
    /\ \E oks \in [1..2 -> BOOLEAN] : SendAllThen(t, Car2AckSends(loc[t]), oks, "loop")
    /\ UNCHANGED <<latest_data, tick, wheel_hash, running, cur, handler, loc, nrecv,
                   nbcast, prev_emergency>>

\* ------------------------------------------------------- tpms_broadcast_loop
tpms_update(tpms) == [type |-> "TPMS_UPDATE", tpms_data |-> tpms, timestamp |-> Now]

\* time.sleep(3) returns and generate() reads self.tick.
BcWake(t) ==
    /\ running
    /\ pc[t] = "bc_sleep"
    /\ nrecv + nbcast < MaxEvents
    /\ nbcast' = nbcast + 1
    /\ loc' = [loc EXCEPT ![t] = [tick_read |-> tick]]
    /\ pc' = [pc EXCEPT ![t] = "gen_store"]
    /\ UNCHANGED <<latest_data, tick, wheel_hash, dashboard_qsize, running, cur, handler,
                   ret, out, nrecv, prev_emergency>>

\* Variant of BcStore: the broadcaster waits while main is between the stores of
\* a report.
BcStoreWhenMainDone(t) ==
    /\ running
    /\ pc[t] = "bc_store"
    /\ pc["main"] \notin {"esp_sensor", "esp_tpms", "esp_emergency"}
    /\ latest_data' = [latest_data EXCEPT !.tpms_data = Some(loc[t]["tpms"])]
    /\ pc' = [pc EXCEPT ![t] = "bc_send"]
    /\ UNCHANGED <<tick, wheel_hash, dashboard_qsize, running, cur, handler, ret, loc,
                   out, nrecv, nbcast, prev_emergency>>

BcStore(t) ==
    /\ running
    /\ pc[t] = "bc_store"
    /\ latest_data' = [latest_data EXCEPT !.tpms_data = Some(loc[t]["tpms"])]
    /\ pc' = [pc EXCEPT ![t] = "bc_send"]
    /\ UNCHANGED <<tick, wheel_hash, dashboard_qsize, running, cur, handler, ret, loc,
                   out, nrecv, nbcast, prev_emergency>>

\* Variant of BcSends: the update goes to the responder instead of the dashboard.
BcSendsToResponder(l) ==
    << [port |-> CAR2_PORT, data |-> tpms_update(l["tpms"]), put |-> TRUE] >>

\* dashboard_queue.put(msg); udp_send(msg, DASHBOARD_IP, DASHBOARD_PORT)
BcSends(l) ==
    << [port |-> DASHBOARD_PORT, data |-> tpms_update(l["tpms"]), put |-> TRUE] >>

BcSend(t) ==
    /\ running
    /\ pc[t] = "bc_send"
    /\ \E oks \in [1..1 -> BOOLEAN] : SendAllThen(t, BcSends(loc[t]), oks, "bc_loop")
    /\ UNCHANGED <<latest_data, tick, wheel_hash, running, cur, handler, loc, nrecv,
                   nbcast, prev_emergency>>

\* The broadcaster's while True: back to time.sleep(3).
BcLoop(t) ==
    /\ running
    /\ pc[t] = "bc_loop"
    /\ pc' = [pc EXCEPT ![t] = "bc_sleep"]
    /\ out' = [out EXCEPT ![t] = <<>>]
    /\ loc' = [loc EXCEPT ![t] = NoLocals]
    /\ UNCHANGED <<latest_data, tick, wheel_hash, dashboard_qsize, running, cur, handler,
                   ret, nrecv, nbcast, prev_emergency>>

\* ------------------------------------------------------------ specification
Next ==
    \/ \E t \in Listeners : RecvDiscard(t)
    \/ \E t \in Listeners : RecvRaise(t)
    \/ RecvReport("main")
    \/ \E t \in Listeners : RecvAck(t)
    \/ \E t \in Listeners : ListenerLoop(t)
    \/ GenLoad("main")
    \/ \E t \in {"main", "tpms_broadcast_loop"} : GenStore(t)
    \/ \E t \in {"main", "tpms_broadcast_loop"} : GenLoop(t)
    \/ EspStoreSensor("main")
    \/ EspStoreTpms("main")
    \/ EspStoreEmergency("main")
    \/ EspFanOut("main")
    \/ \E t \in Listeners : AckCompute(t)
    \/ \E t \in Listeners : AckRaise(t)
    \/ \E t \in Listeners : AckStoreAck(t)
    \/ \E t \in Listeners : AckStoreEta(t)
    \/ \E t \in Listeners : AckFanOut(t)
    \/ BcWake("tpms_broadcast_loop")
    \/ BcStore("tpms_broadcast_loop")
    \/ BcSend("tpms_broadcast_loop")
    \/ BcLoop("tpms_broadcast_loop")

Spec == Init /\ [][Next]_vars

\* ------------------------------------------- generate() called on its own
\* Calls of tpms_gen.generate() by one caller, from the constructed generator on.
\* The other variables stay as the constructor of the module leaves them.
MaxTick == 15

\* hash(wheel) % 10 and hash(wheel) % 7 take every pair of residues as h runs
\* over 0..69; the four wheels get different hashes.
HashChoices ==
    { [w \in WheelSet |->
          (h + 17 * (CHOOSE i \in 1..Len(Wheels) : Wheels[i] = w)) % 70] : h \in 0..69 }

\* The two draws of a call, each at an end point or in the middle of its range.
JitterChoices ==
    { [w \in WheelSet |-> <<pj, tj>>] : pj \in PressureJitter, tj \in TempJitter }

AtRest ==
    /\ latest_data = [sensor_data |-> None, tpms_data |-> None, emergency |-> None,
                      car2_ack |-> None, car2_eta |-> None]
    /\ dashboard_qsize = 0
    /\ running = TRUE
    /\ pc = [t \in Threads |-> IF t \in Listeners THEN "recv" ELSE "bc_sleep"]
    /\ cur = [t \in Listeners |-> None]
    /\ handler = [t \in Listeners |-> "none"]
    /\ ret = [t \in Listeners |-> "none"]
    /\ out = [t \in Threads |-> <<>>]
    /\ nrecv = 0
    /\ nbcast = 0
    /\ prev_emergency = None

restvars == <<latest_data, dashboard_qsize, running, pc, cur, handler, ret, out, nrecv,
              nbcast, prev_emergency>>

GenInit ==
    /\ AtRest
    /\ tick = 0
    /\ wheel_hash \in HashChoices
    /\ loc = [t \in Threads |-> NoLocals]

\* One call of generate(), start to return: the tick goes up by one and the
\* loop builds the dict from the new tick.
GenerateCall ==
    /\ tick < MaxTick
    /\ tick' = tick + 1
    /\ \E jit \in JitterChoices :
         loc' = [loc EXCEPT !["main"] = [tpms |-> GenerateTpms(tick + 1, wheel_hash, jit)]]
    /\ UNCHANGED <<wheel_hash, restvars>>

GenNext == GenerateCall

GenSpec == GenInit /\ [][GenNext]_vars

\* ------------------------------------- the clamp and the status on their own
\* The end of the loop body of generate() for one wheel, from the rounded
\* pressure on: the clamp, then the status.  The rounded pressure runs over
\* every tenth from PressureSpan tenths below the clamp to as many above it.
PressureSpan == 10

StatusInit ==
    /\ AtRest
    /\ tick = 0
    /\ wheel_hash \in HashSamples
    /\ \E raw \in (250 - PressureSpan)..(420 + PressureSpan) :
         loc = [t \in Threads |-> IF t = "main" THEN [rounded |-> raw] ELSE NoLocals]

ClampAndStatus ==
    /\ "status" \notin DOMAIN loc["main"]
    /\ LET pressure == Clamp(250, 420, loc["main"]["rounded"])
       IN  loc' = [loc EXCEPT !["main"] =
                     [rounded |-> @["rounded"], pressure_psi |-> pressure,
                      status |-> WheelStatus(pressure)]]
    /\ UNCHANGED <<tick, wheel_hash, restvars>>

StatusNext == ClampAndStatus

StatusSpec == StatusInit /\ [][StatusNext]_vars

\* ------------------------- haversine_distance and calculate_eta on their own
\* The two functions applied to arguments of the caller's choice: whole degrees
\* over both hemispheres, the poles and the date line, and speeds below, at and
\* above 0.
Latitudes == {-90, -33, 0, 10, 28, 60}
Longitudes == {-120, 0, 20, 77, 180}
Speeds == {-40, -1, 0, DefaultSpeedKmh, 60}

GeoInit ==
    /\ AtRest
    /\ tick = 0
    /\ wheel_hash \in HashSamples
    /\ \E lat1 \in Latitudes, lon1 \in Longitudes, lat2 \in Latitudes,
          lon2 \in Longitudes, speed_kmh \in Speeds :
         loc = [t \in Threads |->
                  IF t = "main"
                  THEN [lat1 |-> lat1, lon1 |-> lon1, lat2 |-> lat2, lon2 |-> lon2,
                        speed_kmh |-> speed_kmh]
                  ELSE NoLocals]

CallHaversine ==
    /\ "distance" \notin DOMAIN loc["main"]
    /\ LET l == loc["main"]
       IN  loc' = [loc EXCEPT !["main"] =
                     DictSet(l, "distance",
                             haversine_distance(l.lat1, l.lon1, l.lat2, l.lon2))]
    /\ UNCHANGED <<tick, wheel_hash, restvars>>

CallEta ==
    /\ "eta" \notin DOMAIN loc["main"]
    /\ LET l == loc["main"]
       IN  loc' = [loc EXCEPT !["main"] =
                     DictSet(l, "eta",
                             calculate_eta(l.lat1, l.lon1, l.lat2, l.lon2, l.speed_kmh))]
    /\ UNCHANGED <<tick, wheel_hash, restvars>>

GeoNext == CallHaversine \/ CallEta

GeoSpec == GeoInit /\ [][GeoNext]_vars

\* ------------------------------------------------------------------ properties
\* The ports a listener has sent to while handling its current datagram.
Ports(log) == [i \in 1..Len(log) |-> log[i].port]
ReportSinks == <<CAR2_PORT, HOSPITAL_PORT, DASHBOARD_PORT>>
AckSinks == <<DASHBOARD_PORT, CAR1_STATUS_PORT>>

\* How often hop h occurs in a trace.
Occurrences(trace, h) == Cardinality({i \in 1..Len(trace) : trace[i] = h})

IsReport(d) == IsDict(d) /\ DictGet(d.obj, "type") # Some("ACK")
IsAck(d) == IsDict(d) /\ DictGet(d.obj, "type") = Some("ACK")

\* main holds a datagram that is a report / has finished handling it.
MainHasReport == ~IsNone(cur["main"]) /\ IsReport(Val(cur["main"]))
MainDoneReport == MainHasReport /\ pc["main"] = "loop"
\* Listener t has finished handle_car2_ack on an acknowledgment.
AckDone(t) ==
    /\ pc[t] = "loop"
    /\ handler[t] = "handle_car2_ack"
    /\ ret[t] = "returned"

\* C1: while main handles a report that parsed, nothing has been sent before
\* the fan-out, and once handle_esp32_packet has returned exactly three sends
\* have been attempted, to 5006, 5007 and 5008 in this order: no sink twice,
\* none skipped.
C1_ReportFanOutOrder ==
    MainHasReport =>
        /\ pc["main"] \in {"gen_load", "gen_store", "gen_loop", "esp_sensor", "esp_tpms",
                           "esp_emergency", "esp_send", "loop"}
        /\ handler["main"] = "handle_esp32_packet"
        /\ IF pc["main"] = "loop"
           THEN ret["main"] = "returned" /\ Ports(out["main"]) = ReportSinks
           ELSE out["main"] = <<>>

C1_Witness ==
    /\ MainDoneReport
    /\ Ports(out["main"]) = ReportSinks
    /\ \E i \in 1..3 : ~out["main"][i].ok

\* C2: a step in which a handler makes a send attempt attempts every sink of
\* its fan-out, whichever of the sends fail, the handler returns normally, and
\* latest_data is what it was before the sends: the stores made before the
\* fan-out stand whatever the sends do.
C2_FailedSendAbortsNothing ==
    [][\A t \in Listeners :
          (Len(out'[t]) > Len(out[t])) =>
              /\ pc[t] \in {"esp_send", "ack_send"}
              /\ Ports(out'[t]) = (IF pc[t] = "esp_send" THEN ReportSinks ELSE AckSinks)
              /\ pc'[t] = "loop"
              /\ ret'[t] = "returned"
              /\ latest_data' = latest_data
              /\ dashboard_qsize' = dashboard_qsize + 1]_vars

C2_Witness ==
    /\ MainDoneReport
    /\ ~out["main"][1].ok /\ ~out["main"][2].ok /\ out["main"][3].ok
    /\ ~IsNone(latest_data.emergency)
    /\ AckDone("ack_listener")
    /\ ~out["ack_listener"][1].ok /\ out["ack_listener"][2].ok
    /\ ~IsNone(latest_data.car2_ack)

\* C3: the step in which a listener receives a datagram that does not parse
\* sends nothing, leaves latest_data, the tick counter and the dashboard queue
\* as they were, and ends the handling of the datagram.
C3_UnparsableDiscarded ==
    [][\A t \in Listeners :
          (pc[t] = "recv" /\ ~IsNone(cur'[t]) /\ Parse(Val(cur'[t])) # "ok") =>
              /\ pc'[t] \in {"loop", "crashed"}
              /\ out'[t] = <<>>
              /\ \A u \in Threads : Len(out'[u]) <= Len(out[u])
              /\ latest_data' = latest_data
              /\ tick' = tick
              /\ dashboard_qsize' = dashboard_qsize]_vars

C3_Witness ==
    /\ \A t \in Listeners :
          /\ ~IsNone(cur[t])
          /\ Parse(Val(cur[t])) = "JSONDecodeError"
          /\ pc[t] = "loop"
          /\ ret[t] = "discarded"
    /\ ~IsNone(latest_data.emergency)
    /\ tick = 1

\* C4: whatever main received on the report port (bytes that are not UTF-8,
\* text that is not JSON, JSON that is not an object), main has not died of it
\* and the process runs on.
C4_ReportPortSurvivesAnyDatagram ==
    (~IsNone(cur["main"]) /\ ~IsDict(Val(cur["main"]))) =>
        /\ pc["main"] = "loop"
        /\ running

\* C5: on the report port a parsed object goes to handle_car2_ack exactly when
\* its type is "ACK"; with the type absent or different it goes to
\* handle_esp32_packet, which attaches tpms_data, overwrites
\* latest_data["emergency"] with this report and sends to the three sinks.
C5_TypeDiscriminates ==
    (~IsNone(cur["main"]) /\ IsDict(Val(cur["main"]))) =>
        LET obj == Val(cur["main"]).obj
        IN  /\ (handler["main"] = "handle_car2_ack") <=> (DictGet(obj, "type") = Some("ACK"))
            /\ (handler["main"] = "handle_esp32_packet") <=> (DictGet(obj, "type") # Some("ACK"))
            /\ (DictGet(obj, "type") # Some("ACK") /\ pc["main"] = "loop") =>
                   /\ "tpms_data" \in DOMAIN loc["main"]["packet"]
                   /\ ~IsNone(latest_data.emergency)
                   /\ Val(latest_data.emergency).vehicle_id = DictGet(obj, "vehicle_id")
                   /\ Val(latest_data.emergency).issue = DictGet(obj, "issue")
                   /\ Ports(out["main"]) = ReportSinks

C5_Witness ==
    /\ MainDoneReport
    /\ DictGet(Val(cur["main"]).obj, "type") = Some("EMERGENCY")
    /\ Val(latest_data.emergency).vehicle_id = Some("CAR_03")
    /\ Ports(out["main"]) = ReportSinks

\* A received report whose hop trace already names the relay.
MainDoneRelayed ==
    /\ MainDoneReport
    /\ "hop_trace" \in DOMAIN Val(cur["main"]).obj
    /\ Occurrences(Val(cur["main"]).obj["hop_trace"], "RELAY") > 0

\* C6: a report whose hop trace already contains "RELAY" leaves
\* handle_esp32_packet with the trace it came with, in the packet sent on and
\* in the stored emergency; and whatever trace a report came with, passing the
\* packet sent on through the relay again changes nothing, so "RELAY" is in it
\* at most once.
C6_AppendIdempotent ==
    /\ MainDoneRelayed =>
          /\ out["main"][1].data["hop_trace"] = Val(cur["main"]).obj["hop_trace"]
          /\ Val(latest_data.emergency).hop_trace = Some(Val(cur["main"]).obj["hop_trace"])
    /\ (MainDoneReport /\ "hop_trace" \in DOMAIN Val(cur["main"]).obj) =>
          /\ Occurrences(out["main"][1].data["hop_trace"], "RELAY") = 1
          /\ AddRelay(out["main"][1].data) = out["main"][1].data

C6_Witness ==
    /\ MainDoneRelayed
    /\ out["main"][1].data["hop_trace"] = <<"CAR_03", "ESP32_RSU", "RELAY">>

\* C7: every report handled leaves with "RELAY" exactly once in the hop trace
\* of the packet sent to the responder and of the stored emergency, a report
\* that came without hop_trace included.
C7_RelayInEveryTrace ==
    MainDoneReport =>
        /\ "hop_trace" \in DOMAIN out["main"][1].data
        /\ Occurrences(out["main"][1].data["hop_trace"], "RELAY") = 1
        /\ ~IsNone(Val(latest_data.emergency).hop_trace)
        /\ Occurrences(Val(Val(latest_data.emergency).hop_trace), "RELAY") = 1

\* A tpms_data that is not null: a reading for each of the four wheels.
HasTpms(msg) == "tpms_data" \in DOMAIN msg /\ DOMAIN msg["tpms_data"] = WheelSet

\* C8 as stated: each of the three messages of the report fan-out has a
\* tpms_data that is not null.
C8_AllThreeCarryTpms ==
    MainDoneReport => \A i \in 1..3 : HasTpms(out["main"][i].data)

\* C8: the packet sent to the responder and the EMERGENCY message sent to the
\* dashboard have a tpms_data that is not null; the EMERGENCY_ALERT message
\* sent to the hospital has no tpms_data field.
C8_ResponderAndDashboardCarryTpms ==
    MainDoneReport =>
        /\ HasTpms(out["main"][1].data)
        /\ out["main"][2].data.type = "EMERGENCY_ALERT"
        /\ "tpms_data" \notin DOMAIN out["main"][2].data
        /\ out["main"][3].data.type = "EMERGENCY"
        /\ HasTpms(out["main"][3].data)
        /\ HasTpms(out["main"][3].data.data)

C8_Witness ==
    /\ MainDoneReport
    /\ HasTpms(out["main"][1].data)
    /\ "tpms_data" \notin DOMAIN out["main"][2].data
    /\ out["main"][3].data.tpms_data["FL"].status = "OK"

\* C9: the CAR2_ACK message and the HELP_COMING message of one acknowledgment
\* have the same eta_minutes and the same distance_km, whatever the other
\* threads did in between.
C9_AckMessagesAgree ==
    \A t \in Listeners :
        AckDone(t) =>
            /\ Ports(out[t]) = AckSinks
            /\ out[t][1].data.type = "CAR2_ACK"
            /\ out[t][2].data.type = "HELP_COMING"
            /\ out[t][1].data.eta_minutes = out[t][2].data.eta_minutes
            /\ out[t][1].data.distance_km = out[t][2].data.distance_km

C9_Witness ==
    /\ AckDone("ack_listener")
    /\ out["ack_listener"][1].data.distance_km > 0
    /\ out["ack_listener"][2].data.eta_minutes > 0
    /\ MainHasReport
    /\ pc["main"] \in {"esp_emergency", "esp_send"}
    /\ Val(latest_data.emergency) # Val(loc["ack_listener"]["emergency"])

\* An acknowledgment handled while latest_data["emergency"] was None.
AckDoneWithoutEmergency(t) == AckDone(t) /\ IsNone(loc[t]["emergency"])

\* C10 as stated: with no emergency stored, the messages carry the ETA and the
\* distance between the responder's coordinates and (0, 0).
C10_ComputedAgainstOrigin ==
    \A t \in Listeners :
        AckDoneWithoutEmergency(t) =>
            \A i \in 1..2 :
                /\ out[t][i].data.eta_minutes =
                       calculate_eta(loc[t]["car2_lat"], loc[t]["car2_lon"], 0, 0,
                                     DefaultSpeedKmh)
                /\ out[t][i].data.distance_km =
                       Round2(haversine_distance(loc[t]["car2_lat"], loc[t]["car2_lon"], 0, 0))

\* C10: with no emergency stored, both messages carry eta_minutes 0 and
\* distance_km 0, wherever the responder is.
C10_ZeroWithoutEmergency ==
    \A t \in Listeners :
        AckDoneWithoutEmergency(t) =>
            \A i \in 1..2 :
                /\ out[t][i].data.eta_minutes = 0
                /\ out[t][i].data.distance_km = 0

C10_Witness ==
    \E t \in Listeners :
        /\ AckDoneWithoutEmergency(t)
        /\ loc[t]["car2_lat"] # 0
        /\ haversine_distance(loc[t]["car2_lat"], loc[t]["car2_lon"], 0, 0) > 0
        /\ out[t][1].data.eta_minutes = 0
        /\ out[t][2].data.distance_km = 0

\* The fields of the stored emergency that come from the report obj.
DescribesOnly(emergency, obj) ==
    /\ emergency.vehicle_id = DictGet(obj, "vehicle_id")
    /\ emergency.issue = DictGet(obj, "issue")
    /\ emergency.raw_description = DictGet(obj, "raw_description")
    /\ emergency.latitude = DictGet(obj, "latitude")
    /\ emergency.longitude = DictGet(obj, "longitude")
    /\ emergency.timestamp = DictGet(obj, "timestamp")

\* main has stored the emergency of the report it holds.
MainStoredReport == MainHasReport /\ pc["main"] \in {"esp_send", "loop"}

\* C11: once a report is stored, latest_data["emergency"] describes that report
\* only, whatever emergency it replaced; handle_car2_ack reads the emergency
\* stored at that moment, and the ETA and the distance of its two messages are
\* the ones between the responder and that emergency, whichever vehicle the
\* acknowledgment names in accident_vehicle.
C11_LatestEmergencyOnly ==
    /\ [](MainStoredReport =>
             /\ ~IsNone(latest_data.emergency)
             /\ DescribesOnly(Val(latest_data.emergency), Val(cur["main"]).obj))
    /\ [](\A t \in Listeners :
             (AckDone(t) /\ ~IsNone(loc[t]["emergency"])) =>
                 LET e == Val(loc[t]["emergency"])
                     eta == calculate_eta(loc[t]["car2_lat"], loc[t]["car2_lon"],
                                          Val(e.latitude), Val(e.longitude),
                                          DefaultSpeedKmh)
                     km == Round2(haversine_distance(loc[t]["car2_lat"],
                                                     loc[t]["car2_lon"],
                                                     Val(e.latitude), Val(e.longitude)))
                 IN  \A i \in 1..2 : /\ out[t][i].data.eta_minutes = eta
                                     /\ out[t][i].data.distance_km = km)
    /\ [][\A t \in Listeners :
             (pc[t] = "ack_read" /\ pc'[t] = "ack_store_ack") =>
                 loc'[t]["emergency"] = latest_data.emergency]_vars

\* Reports for CAR_01 then CAR_03 were stored, and an acknowledgment naming
\* CAR_01 was then answered with the figures for CAR_03's position.
C11_Witness ==
    /\ ~IsNone(prev_emergency)
    /\ Val(prev_emergency).vehicle_id = Some("CAR_01")
    /\ ~IsNone(latest_data.emergency)
    /\ Val(latest_data.emergency).vehicle_id = Some("CAR_03")
    /\ \E t \in Listeners :
          /\ AckDone(t)
          /\ DictGet(loc[t]["ack"], "accident_vehicle") = Some("CAR_01")
          /\ loc[t]["emergency"] = latest_data.emergency
          /\ out[t][1].data.eta_minutes
                 = calculate_eta(loc[t]["car2_lat"], loc[t]["car2_lon"], 10, 20,
                                 DefaultSpeedKmh)
          /\ out[t][1].data.eta_minutes
                 # calculate_eta(loc[t]["car2_lat"], loc[t]["car2_lon"], 28, 77,
                                 DefaultSpeedKmh)

\* C12: the step in which handle_esp32_packet makes the new report the stored
\* emergency leaves latest_data with that emergency and with no acknowledgment
\* and no ETA: what was recorded for an earlier emergency is gone.
C12_ReportClearsAck ==
    [][(pc["main"] = "esp_emergency" /\ pc'["main"] = "esp_send") =>
           /\ ~IsNone(latest_data'.emergency)
           /\ DescribesOnly(Val(latest_data'.emergency), Val(cur["main"]).obj)
           /\ IsNone(latest_data'.car2_ack)
           /\ IsNone(latest_data'.car2_eta)]_vars

\* C13: no increment of the tick counter is lost: every store that ends
\* self.tick += 1, by the report handler or by the broadcaster, leaves the
\* counter one above what it was just before the store, so that N calls of
\* generate() advance it by exactly N.
C13_NoLostIncrement ==
    [][\A t \in Threads :
          (pc[t] = "gen_store" /\ pc'[t] = "gen_loop") => tick' = tick + 1]_vars

\* The dict the last call of generate() returned.
Generated == "tpms" \in DOMAIN loc["main"]

\* C14: every dict generate() returns has a reading for exactly FL, FR, RL and
\* RR, each with a pressure in [25.0, 42.0] and a temperature in [20.0, 90.0]
\* (tenths: 250..420 and 200..900).
C14_ReadingsInRange ==
    Generated =>
        /\ DOMAIN loc["main"]["tpms"] = {"FL", "FR", "RL", "RR"}
        /\ \A w \in DOMAIN loc["main"]["tpms"] :
              LET r == loc["main"]["tpms"][w]
              IN  /\ 250 <= r.pressure_psi /\ r.pressure_psi <= 420
                  /\ 200 <= r.temperature_c /\ r.temperature_c <= 900

\* A call late in the run whose drifts and jitters push one wheel's pressure
\* to the top of what the generator reaches and another's temperature low.
C14_Witness ==
    /\ Generated
    /\ tick > 10
    /\ \E w \in WheelSet : loc["main"]["tpms"][w].pressure_psi >= 350
    /\ \E w \in WheelSet : loc["main"]["tpms"][w].temperature_c <= 300

\* C15: the status of a reading is LOW exactly when its clamped pressure is
\* below 28.0, HIGH exactly when it is above 38.0, and OK otherwise, 28.0 and
\* 38.0 included (tenths: 280 and 380).
C15_StatusFromPressure ==
    "status" \in DOMAIN loc["main"] =>
        LET r == loc["main"]
        IN  /\ r.status \in {"LOW", "HIGH", "OK"}
            /\ (r.status = "LOW") <=> (r.pressure_psi < 280)
            /\ (r.status = "HIGH") <=> (r.pressure_psi > 380)
            /\ (r.status = "OK") <=> (280 <= r.pressure_psi /\ r.pressure_psi <= 380)

C15_Witness ==
    /\ "status" \in DOMAIN loc["main"]
    /\ loc["main"].pressure_psi = 280
    /\ loc["main"].status = "OK"

\* C16: calculate_eta called with a speed of 0 or less returns 999 (9990
\* tenths), whatever the two points are, and returns it without dividing.
C16_SentinelForNoSpeed ==
    ("eta" \in DOMAIN loc["main"] /\ loc["main"].speed_kmh <= 0) =>
        loc["main"].eta = 9990

C16_Witness ==
    /\ "eta" \in DOMAIN loc["main"]
    /\ loc["main"].speed_kmh < 0
    /\ loc["main"].eta = 9990
    /\ "distance" \in DOMAIN loc["main"]
    /\ loc["main"].distance > 0

\* C17: haversine_distance gives the same distance from A to B as from B to A,
\* and 0 from A to A.
C17_SymmetricZeroDiagonal ==
    "distance" \in DOMAIN loc["main"] =>
        LET l == loc["main"]
        IN  /\ l.distance = haversine_distance(l.lat2, l.lon2, l.lat1, l.lon1)
            /\ (l.lat1 = l.lat2 /\ l.lon1 = l.lon2) => l.distance = 0
            /\ haversine_distance(l.lat1, l.lon1, l.lat1, l.lon1) = 0

C17_Witness ==
    /\ "distance" \in DOMAIN loc["main"]
    /\ loc["main"].lat1 = 28 /\ loc["main"].lon1 = 77
    /\ loc["main"].lat2 = -33 /\ loc["main"].lon2 = -120
    /\ loc["main"].distance > 0
    /\ loc["main"].distance = haversine_distance(-33, -120, 28, 77)

\* The stored hop trace comes from the report obj: its trace, with the relay
\* added or not, and None when obj has none.
TraceFrom(stored, obj) ==
    IF "hop_trace" \in DOMAIN obj
    THEN stored \in {Some(obj["hop_trace"]), Some(Append(obj["hop_trace"], "RELAY"))}
    ELSE IsNone(stored)

\* The stored environment reading is the report's, and empty when it has none.
ReadingFrom(stored, obj) ==
    IF "rsu_environment" \in DOMAIN obj
    THEN stored = Some(obj["rsu_environment"])
    ELSE stored = Some(<<>>)

\* C18 as stated: once a report is stored, every field of the emergency and
\* the environment reading come from that report alone, and a field the report
\* lacks is null or empty, environment_status included.
C18_LackingFieldsNullOrEmpty ==
    MainStoredReport =>
        LET obj == Val(cur["main"]).obj
            e == Val(latest_data.emergency)
        IN  /\ DescribesOnly(e, obj)
            /\ TraceFrom(e.hop_trace, obj)
            /\ ReadingFrom(latest_data.sensor_data, obj)
            /\ IF "environment_status" \in DOMAIN obj
               THEN e.environment_status = obj["environment_status"]
               ELSE e.environment_status = ""

\* C18: once a report is stored, every field of the emergency and the
\* environment reading come from that report alone: a field the report lacks
\* is None in the emergency, the reading is empty when the report has none,
\* and environment_status is the label "Unknown" when the report has none.
\* Nothing of the emergency stored before is kept.
C18_OverwriteNotMerge ==
    MainStoredReport =>
        LET obj == Val(cur["main"]).obj
            e == Val(latest_data.emergency)
        IN  /\ DescribesOnly(e, obj)
            /\ TraceFrom(e.hop_trace, obj)
            /\ ReadingFrom(latest_data.sensor_data, obj)
            /\ IF "environment_status" \in DOMAIN obj
               THEN e.environment_status = obj["environment_status"]
               ELSE e.environment_status = "Unknown"

\* The full report of CAR_01 was stored, then the bare one of CAR_04.
C18_Witness ==
    /\ MainStoredReport
    /\ ~IsNone(prev_emergency)
    /\ Val(prev_emergency).latitude = Some(28)
    /\ Val(prev_emergency).environment_status = "Normal"
    /\ Val(latest_data.emergency).vehicle_id = Some("CAR_04")
    /\ IsNone(Val(latest_data.emergency).latitude)
    /\ IsNone(Val(latest_data.emergency).hop_trace)
    /\ Val(latest_data.emergency).environment_status = "Unknown"
    /\ latest_data.sensor_data = Some(<<>>)

\* C19: every datagram a listener received that parses to an object of type
\* "ACK" is handled to the end: nothing is sent before the fan-out, the handler
\* does not die, and once it has returned exactly two sends have been
\* attempted, CAR2_ACK to the dashboard then HELP_COMING to port 5009, and
\* none to the responder or the hospital.
C19_AckConsumedOnce ==
    \A t \in Listeners :
        (~IsNone(cur[t]) /\ IsAck(Val(cur[t]))) =>
            /\ handler[t] = "handle_car2_ack"
            /\ pc[t] \in {"ack_read", "ack_store_ack", "ack_store_eta", "ack_send", "loop"}
            /\ IF pc[t] = "loop"
               THEN /\ ret[t] = "returned"
                    /\ Ports(out[t]) = <<DASHBOARD_PORT, 5009>>
                    /\ out[t][1].data.type = "CAR2_ACK"
                    /\ out[t][2].data.type = "HELP_COMING"
               ELSE out[t] = <<>>

\* C20 as stated: whenever latest_data records an acknowledgment or an ETA it
\* records an emergency too.
C20_AckOnlyWithEmergency ==
    (~IsNone(latest_data.car2_ack) \/ ~IsNone(latest_data.car2_eta)) =>
        ~IsNone(latest_data.emergency)

\* C20: an acknowledgment is recorded whether or not an emergency is: once
\* handle_car2_ack has returned, latest_data holds an acknowledgment and an
\* ETA, and while no emergency has been stored that ETA is 0.
C20_AckRecordedInAnyState ==
    \A t \in Listeners :
        AckDone(t) =>
            /\ ~IsNone(latest_data.car2_ack)
            /\ ~IsNone(latest_data.car2_eta)
            /\ IsNone(latest_data.emergency) => latest_data.car2_eta = Some(0)

C20_Witness ==
    \E t \in Listeners :
        /\ AckDone(t)
        /\ IsNone(latest_data.emergency)
        /\ latest_data.car2_ack = Some(loc[t]["ack"])
        /\ latest_data.car2_eta = Some(0)
        /\ loc[t]["car2_lat"] # 0

\* The keys of latest_data as the module creates it.
LatestFields == {"sensor_data", "tpms_data", "emergency", "car2_ack", "car2_eta"}

C22_AckCompletesInEveryState ==
    \A t \in Listeners :
        (~IsNone(cur[t]) /\ IsAck(Val(cur[t]))) =>
            /\ ret[t] # "raised"
            /\ pc[t] # "crashed"
            /\ running
            /\ (pc[t] = "loop") =>
                   {out[t][i].data.type : i \in 1..Len(out[t])} = {"CAR2_ACK", "HELP_COMING"}

\* C23: latest_data is stored field by field: no step of any thread changes
\* more than one of its fields, so between the stores of one report the fields
\* already written belong to that report and the others to earlier events.
C23_FieldByField ==
    [][Cardinality({f \in DOMAIN latest_data : latest_data'[f] # latest_data[f]}) <= 1]_vars

\* The report of CAR_03 has stored its (empty) environment reading while the
\* emergency is still CAR_01's, whose reading was another one; or its
\* emergency is stored while the telemetry is already the broadcaster's.
C23_Witness ==
    /\ MainHasReport
    /\ pc["main"] \in {"esp_tpms", "esp_emergency"}
    /\ DictGet(Val(cur["main"]).obj, "vehicle_id") = Some("CAR_03")
    /\ latest_data.sensor_data = Some(loc["main"]["sensor_data"])
    /\ latest_data.sensor_data # Some(EnvReading)
    /\ ~IsNone(latest_data.emergency)
    /\ Val(latest_data.emergency).vehicle_id = Some("CAR_01")
    /\ Val(latest_data.emergency).environment_status = "Normal"

\* Thread t is alive, and if it sits in recvfrom or in sleep there is a
\* datagram or a timer tick for it.
Ready(t) ==
    /\ running
    /\ pc[t] \notin {"crashed", "killed"}
    /\ (pc[t] \in {"recv", "bc_sleep"}) => (nrecv + nbcast < MaxEvents)

\* The step thread t takes next can be taken in this state. GenLoop and
\* AckCompute have no condition but running, the position of the thread and, for
\* AckCompute, AckComputable: those are stated directly, the trigonometry of
\* their assignments is not evaluated again.
CanStep(t) ==
    /\ (pc[t] = "recv") =>
           ENABLED (\/ RecvDiscard(t) \/ RecvRaise(t) \/ RecvAck(t)
                    \/ (t = "main" /\ RecvReport(t)))
    /\ (pc[t] = "loop") => ENABLED ListenerLoop(t)
    /\ (pc[t] = "gen_load") => ENABLED GenLoad(t)
    /\ (pc[t] = "gen_store") => ENABLED GenStore(t)
    /\ (pc[t] = "gen_loop") => running
    /\ (pc[t] = "esp_sensor") => ENABLED EspStoreSensor(t)
    /\ (pc[t] = "esp_tpms") => ENABLED EspStoreTpms(t)
    /\ (pc[t] = "esp_emergency") => ENABLED EspStoreEmergency(t)
    /\ (pc[t] = "esp_send") => ENABLED EspFanOut(t)
    /\ (pc[t] = "ack_read") =>
           (AckComputable(latest_data.emergency) \/ ENABLED AckRaise(t))
    /\ (pc[t] = "ack_store_ack") => ENABLED AckStoreAck(t)
    /\ (pc[t] = "ack_store_eta") => ENABLED AckStoreEta(t)
    /\ (pc[t] = "ack_send") => ENABLED AckFanOut(t)
    /\ (pc[t] = "bc_sleep") => ENABLED BcWake(t)
    /\ (pc[t] = "bc_store") => ENABLED BcStore(t)
    /\ (pc[t] = "bc_send") => ENABLED BcSend(t)
    /\ (pc[t] = "bc_loop") => ENABLED BcLoop(t)

\* C24: no thread ever waits for another: every live thread that has input
\* can take its next step, wherever the other two threads are.
C24_NobodyWaits == \A t \in Threads : Ready(t) => CanStep(t)

\* All three threads are in the middle of their work at once.
C24_Witness ==
    /\ pc["main"] \in {"esp_sensor", "esp_tpms", "esp_emergency"}
    /\ pc["ack_listener"] \in {"ack_store_ack", "ack_store_eta"}
    /\ pc["tpms_broadcast_loop"] = "bc_store"
    /\ \A t \in Threads : Ready(t) /\ CanStep(t)

\* C25: the broadcaster is never stopped: its thread has not ended and the
\* process it runs in is alive, whatever the listeners received.
C25_BroadcasterNeverStops ==
    /\ running
    /\ pc["tpms_broadcast_loop"] \notin {"killed", "crashed"}

\* A step of the broadcaster itself.
BroadcasterStep ==
    /\ pc'["tpms_broadcast_loop"] # pc["tpms_broadcast_loop"]
    /\ pc'["tpms_broadcast_loop"] # "killed"

\* C26: a step of the broadcaster leaves latest_data's emergency, sensor_data,
\* car2_ack and car2_eta as they were, adds nothing to what the listeners have
\* sent, and whatever the broadcaster has sent went to the dashboard port.
C26_TickFrame ==
    [][BroadcasterStep =>
         /\ \A f \in {"emergency", "sensor_data", "car2_ack", "car2_eta"} :
                latest_data'[f] = latest_data[f]
         /\ \A t \in Listeners : out'[t] = out[t]
         /\ \A i \in 1..Len(out'["tpms_broadcast_loop"]) :
                out'["tpms_broadcast_loop"][i].port = DASHBOARD_PORT]_vars

\* A tick has stored its readings and sent its update while an emergency, an
\* environment reading and an acknowledgment were stored.
C26_Witness ==
    /\ pc["tpms_broadcast_loop"] = "bc_loop"
    /\ Ports(out["tpms_broadcast_loop"]) = <<DASHBOARD_PORT>>
    /\ out["tpms_broadcast_loop"][1].data.type = "TPMS_UPDATE"
    /\ latest_data.tpms_data = Some(out["tpms_broadcast_loop"][1].data.tpms_data)
    /\ tick >= 2
    /\ ~IsNone(latest_data.emergency)
    /\ ~IsNone(latest_data.sensor_data)
    /\ ~IsNone(latest_data.car2_ack)
    /\ latest_data.car2_eta # None

\* The (latitude, longitude) pairs of the reports that can arrive.
ReportPositions ==
    { <<DictGet(o, "latitude"), DictGet(o, "longitude")>> :
        o \in {x \in Objects : IsReport(JsonObject(x))} }

\* Listener t has computed eta_min and distance and not yet returned.
AckComputed(t) == pc[t] \in {"ack_store_ack", "ack_store_eta", "ack_send"}

\* C27: once handle_car2_ack has computed against an emergency, the latitude
\* and the longitude it used are those of one report, and eta_min and distance
\* are the ones of the responder's position and that report's position.
C27_OneEmergency ==
    \A t \in Listeners :
        (AckComputed(t) /\ ~IsNone(loc[t]["emergency"])) =>
            LET e == Val(loc[t]["emergency"])
            IN  /\ <<e.latitude, e.longitude>> \in ReportPositions
                /\ loc[t]["distance"]
                     = haversine_distance(loc[t]["car2_lat"], loc[t]["car2_lon"],
                                          Val(e.latitude), Val(e.longitude))
                /\ loc[t]["eta_min"]
                     = calculate_eta(loc[t]["car2_lat"], loc[t]["car2_lon"],
                                     Val(e.latitude), Val(e.longitude), DefaultSpeedKmh)

\* The acknowledgment listener has computed against one report while the
\* report listener has already stored another.
C27_Witness ==
    /\ AckComputed("ack_listener")
    /\ ~IsNone(loc["ack_listener"]["emergency"])
    /\ ~IsNone(latest_data.emergency)
    /\ latest_data.emergency # loc["ack_listener"]["emergency"]
    /\ Val(latest_data.emergency).latitude # Val(loc["ack_listener"]["emergency"]).latitude
    /\ loc["ack_listener"]["distance"] > 0

\* C28: when both listeners have returned from handle_car2_ack, on two
\* different acknowledgments, and one of them is the acknowledgment held in
\* latest_data["car2_ack"], latest_data["car2_eta"] is the eta_min its handler
\* computed.
C28_AckAndEtaPaired ==
    \A t \in Listeners : \A u \in Listeners \ {t} :
        (/\ AckDone(t)
         /\ AckDone(u)
         /\ loc[t]["ack"] # loc[u]["ack"]
         /\ latest_data.car2_ack = Some(loc[t]["ack"])) =>
            latest_data.car2_eta = Some(loc[t]["eta_min"])

\* ack_listener takes from its socket a JSON object whose type is not "ACK".
AckPortGetsNonAck ==
    /\ cur'["ack_listener"] # cur["ack_listener"]
    /\ IF IsNone(cur'["ack_listener"]) THEN FALSE
       ELSE IsReport(Val(cur'["ack_listener"]))

\* C29: when ack_listener receives a JSON object whose type is not "ACK",
\* handle_car2_ack returns at once: latest_data, everything sent so far and the
\* dashboard queue are as before, the handler keeps no locals, and the call was
\* to handle_car2_ack, never to handle_esp32_packet.
C29_NonAckDropped ==
    [][AckPortGetsNonAck =>
         /\ latest_data' = latest_data
         /\ out' = out
         /\ dashboard_qsize' = dashboard_qsize
         /\ tick' = tick
         /\ handler'["ack_listener"] = "handle_car2_ack"
         /\ ret'["ack_listener"] = "discarded"
         /\ pc'["ack_listener"] = "loop"
         /\ loc'["ack_listener"] = NoLocals]_vars

\* ack_listener has received CAR_03's report and returned, and the stored
\* emergency is still CAR_01's.
C29_Witness ==
    /\ ~IsNone(cur["ack_listener"])
    /\ IsReport(Val(cur["ack_listener"]))
    /\ DictGet(Val(cur["ack_listener"]).obj, "vehicle_id") = Some("CAR_03")
    /\ pc["ack_listener"] = "loop"
    /\ out["ack_listener"] = <<>>
    /\ ~IsNone(latest_data.emergency)
    /\ Val(latest_data.emergency).vehicle_id = Some("CAR_01")

\* C30: every pressure generate() returns is strictly between 28.0 and 38.0
\* (tenths: 280 and 380), so every status is OK; a clamped pressure is 25.0 or
\* 42.0 only if the clamp changed it or it was one of them, and none is.
C30_AlwaysOk ==
    Generated =>
        \A w \in WheelSet :
            LET r == loc["main"]["tpms"][w]
            IN  /\ 280 < r.pressure_psi /\ r.pressure_psi < 380
                /\ r.status = "OK"
                /\ r.pressure_psi \notin {250, 420}

\* A call whose drift and jitter bring one wheel down to 30.3 PSI or less, next
\* to the lowest pressure the generator reaches, and another up to 34.5 PSI or
\* more.
C30_Witness ==
    /\ Generated
    /\ \E w \in WheelSet : loc["main"]["tpms"][w].pressure_psi <= 303
    /\ \E w \in WheelSet : loc["main"]["tpms"][w].pressure_psi >= 345
    /\ \A w \in WheelSet : loc["main"]["tpms"][w].status = "OK"
=============================================================================
